---------------------------- MODULE Spec2Model ----------------------------
(***************************************************************************)
(* A model of davidapp.py, the Streamlit retirement planner.               *)
(*                                                                         *)
(* The script is re-run from top to bottom on every user interaction: the  *)
(* widgets keep their values between runs, everything else is recomputed.  *)
(* One run of the script is one evaluation pass.                           *)
(*                                                                         *)
(* Numbers.  Python ints are modelled by TLA+ integers.  Python floats are *)
(* modelled by exact rationals (a signed numerator and a bag of            *)
(* denominator factors, both of arbitrary size), so a division keeps its   *)
(* quotient and a power keeps every digit; rounding to 53 bits is the one  *)
(* thing left out.  Division by zero and 0 ** negative raise               *)
(* ZeroDivisionError as in Python.                                         *)
(***************************************************************************)
EXTENDS Integers, Sequences, FiniteSets, TLC

VARIABLES
    inputs,     \* the widgets' values (Streamlit keeps them between passes)
    button,     \* the button whose click triggered the last pass, or "none"
    page,       \* what the last pass of the script computed
    shown,      \* history: some earlier pass computed a non-empty growth series
    call,       \* direct call of one of the module's functions: name and arguments
    ret         \* what that call returned or raised

vars == <<inputs, button, page, shown, call, ret>>

---------------------------------------------------------------------------
(* Natural numbers of any size: little-endian sequences of limbs, the      *)
(* highest limb non-zero, zero the empty sequence.                         *)

Base == 10 * 100

Limb(a, i) == IF i <= Len(a) THEN a[i] ELSE 0

RECURSIVE MFromNat(_)
MFromNat(k) == IF k = 0 THEN <<>> ELSE <<k % Base>> \o MFromNat(k \div Base)

\* the limbs of a range and the carry out of it, joined to a number
WithCarry(r) == IF r.c = 0 THEN r.v ELSE Append(r.v, r.c)

RECURSIVE AddRange(_, _, _, _, _)
AddRange(a, b, lo, hi, c) ==
    IF lo = hi
    THEN LET t == Limb(a, lo) + Limb(b, lo) + c
         IN [v |-> <<t % Base>>, c |-> t \div Base]
    ELSE LET mid == (lo + hi) \div 2
             L == AddRange(a, b, lo, mid, c)
             H == AddRange(a, b, mid + 1, hi, L.c)
         IN [v |-> L.v \o H.v, c |-> H.c]

MAdd(a, b) ==
    IF a = <<>> THEN b
    ELSE IF b = <<>> THEN a
    ELSE WithCarry(AddRange(a, b, 1, IF Len(a) >= Len(b) THEN Len(a) ELSE Len(b), 0))

RECURSIVE SubRange(_, _, _, _, _)
SubRange(a, b, lo, hi, c) ==
    IF lo = hi
    THEN LET t == Limb(a, lo) - Limb(b, lo) - c
         IN IF t < 0 THEN [v |-> <<t + Base>>, c |-> 1]
                     ELSE [v |-> <<t>>, c |-> 0]
    ELSE LET mid == (lo + hi) \div 2
             L == SubRange(a, b, lo, mid, c)
             H == SubRange(a, b, mid + 1, hi, L.c)
         IN [v |-> L.v \o H.v, c |-> H.c]

Trim(a) ==
    IF \A i \in DOMAIN a : a[i] = 0 THEN <<>>
    ELSE SubSeq(a, 1, CHOOSE i \in DOMAIN a :
                          a[i] # 0 /\ \A j \in (i + 1)..Len(a) : a[j] = 0)

\* a - b for a >= b
MSub(a, b) == IF a = <<>> THEN <<>> ELSE Trim(SubRange(a, b, 1, Len(a), 0).v)

MLess(a, b) ==
    IF Len(a) # Len(b) THEN Len(a) < Len(b)
    ELSE /\ a # b
         /\ \E i \in DOMAIN a :
                /\ a[i] < b[i]
                /\ \A j \in (i + 1)..Len(a) : a[j] = b[j]

RECURSIVE ConvSum(_, _, _, _, _)
\* the sum of a[k - j + 1] * b[j] for j in lo..hi
ConvSum(a, b, k, lo, hi) ==
    IF lo > hi THEN 0
    ELSE a[k - lo + 1] * b[lo] + ConvSum(a, b, k, lo + 1, hi)

\* the coefficients of the product, before the carries
Conv(a, b) ==
    [k \in 1..(Len(a) + Len(b) - 1) |->
        ConvSum(a, b, k,
                IF k > Len(a) THEN k - Len(a) + 1 ELSE 1,
                IF k > Len(b) THEN Len(b) ELSE k)]

RECURSIVE CarryRange(_, _, _, _)
CarryRange(a, lo, hi, c) ==
    IF lo = hi
    THEN LET t == a[lo] + c
         IN [v |-> <<t % Base>>, c |-> t \div Base]
    ELSE LET L == CarryRange(a, lo, (lo + hi) \div 2, c)
             H == CarryRange(a, (lo + hi) \div 2 + 1, hi, L.c)
         IN [v |-> L.v \o H.v, c |-> H.c]

\* the limbs of a range and the carry out of it, which may take several limbs
WithCarries(r) == r.v \o MFromNat(r.c)

Carried(a) == WithCarries(CarryRange(a, 1, Len(a), 0))

MMul(a, b) == IF a = <<>> \/ b = <<>> THEN <<>> ELSE Carried(Conv(a, b))

MSq(a) == MMul(a, a)

RECURSIVE MPow(_, _)
MPow(a, n) ==
    IF n = 0 THEN <<1>>
    ELSE IF n = 1 THEN a
    ELSE IF n % 2 = 0 THEN MSq(MPow(a, n \div 2))
    ELSE MMul(a, MSq(MPow(a, n \div 2)))

RECURSIVE ProdRange(_, _, _)
ProdRange(s, lo, hi) ==
    IF lo = hi THEN s[lo]
    ELSE MMul(ProdRange(s, lo, (lo + hi) \div 2),
              ProdRange(s, (lo + hi) \div 2 + 1, hi))

\* the product of a sequence of numbers
MProd(s) == IF s = <<>> THEN <<1>> ELSE ProdRange(s, 1, Len(s))

---------------------------------------------------------------------------
(* Integers of any size: a sign and a magnitude.                           *)

ZMake(s, m) == IF m = <<>> THEN [s |-> 0, m |-> <<>>] ELSE [s |-> s, m |-> m]

ZInt(k) == IF k < 0 THEN ZMake(-1, MFromNat(-k)) ELSE ZMake(1, MFromNat(k))

ZNeg(a) == ZMake(-a.s, a.m)

\* big + small for numbers of opposite sign, |big| >= |small|
ZDiff(big, small) == ZMake(big.s, MSub(big.m, small.m))

ZAdd(a, b) ==
    IF a.s = 0 THEN b
    ELSE IF b.s = 0 THEN a
    ELSE IF a.s = b.s THEN ZMake(a.s, MAdd(a.m, b.m))
    ELSE ZDiff(IF MLess(a.m, b.m) THEN b ELSE a, IF MLess(a.m, b.m) THEN a ELSE b)

ZLeq(a, b) ==
    IF a.s # b.s THEN a.s < b.s
    ELSE IF a.s = 0 THEN TRUE
    ELSE IF a.s = 1 THEN ~MLess(b.m, a.m)
    ELSE ~MLess(a.m, b.m)

---------------------------------------------------------------------------
(* Bags of denominator factors: functions from a magnitude to the number   *)
(* of times it divides.                                                    *)

NoFactors == <<>>

Copies(d, e) == IF e \in DOMAIN d THEN d[e] ELSE 0

DJoin(a, b) == [e \in DOMAIN a \cup DOMAIN b |-> Copies(a, e) + Copies(b, e)]

DLcm(a, b) ==
    [e \in DOMAIN a \cup DOMAIN b |->
        IF Copies(a, e) >= Copies(b, e) THEN Copies(a, e) ELSE Copies(b, e)]

DScale(d, k) == IF k = 0 THEN NoFactors ELSE [e \in DOMAIN d |-> d[e] * k]

RECURSIVE Lacking(_, _, _)
\* the powers of the factors of l that d lacks, for the factors in es
Lacking(l, d, es) ==
    IF es = {} THEN <<>>
    ELSE LET e == CHOOSE x \in es : TRUE
         IN <<MPow(e, l[e] - Copies(d, e))>> \o Lacking(l, d, es \ {e})

Factors(d) == Lacking(d, NoFactors, DOMAIN d)

DProd(d) == MProd(Factors(d))

---------------------------------------------------------------------------
(* Python floats as exact rationals n / prod(d).                           *)

RInt(k) == [n |-> ZInt(k), d |-> NoFactors]

RIsZero(a) == a.n.s = 0

RNeg(a) == [n |-> ZNeg(a.n), d |-> a.d]

\* the numerator of a over the denominator l, a multiple of a's own
Lifted(a, l) == ZMake(a.n.s, MProd(<<a.n.m>> \o Lacking(l, a.d, DOMAIN l)))

RSum(ab, l) == [n |-> ZAdd(ab[1], ab[2]), d |-> l]

RAddOver(ab, l) == RSum([i \in 1..2 |-> Lifted(ab[i], l)], l)

RAdd(a, b) == RAddOver(<<a, b>>, DLcm(a.d, b.d))

RSub(a, b) == RAdd(a, RNeg(b))

RMul(a, b) == [n |-> ZMake(a.n.s * b.n.s, MMul(a.n.m, b.n.m)), d |-> DJoin(a.d, b.d)]

\* a / b for b # 0
RDiv(a, b) ==
    [n |-> ZMake(a.n.s * b.n.s, MProd(<<a.n.m>> \o Factors(b.d))),
     d |-> DJoin(a.d, [e \in {b.n.m} |-> 1])]

\* a ** k for an int k >= 0
RPowNat(a, k) ==
    [n |-> ZMake(IF k % 2 = 0 THEN 1 ELSE a.n.s, MPow(a.n.m, k)),
     d |-> DScale(a.d, k)]

\* a ** k for an int k; a # 0 when k < 0
RPow(a, k) == RPowNat(IF k < 0 THEN RDiv(RInt(1), a) ELSE a, IF k < 0 THEN -k ELSE k)

RLeq(a, b) == ZLeq(Lifted(a, DLcm(a.d, b.d)), Lifted(b, DLcm(a.d, b.d)))

REq(a, b) == RLeq(a, b) /\ RLeq(b, a)

RAbs(a) == IF a.n.s < 0 THEN RNeg(a) ELSE a

\* a decimal literal such as 7.1 or 0.3: n / q
Dec(n, q) == RDiv(RInt(n), RInt(q))

---------------------------------------------------------------------------
(* Outcomes of an evaluation that may raise.                               *)

Ok(v) == [err |-> "none", val |-> <<v>>]

Raise(e) == [err |-> e, val |-> <<>>]

---------------------------------------------------------------------------
(* The three functions of the script.                                      *)

RECURSIVE sip_loop(_, _, _, _, _)
\* for i in range(1, months + 1): future_value += ...
sip_loop(monthly_investment, monthly_rate, months, i, future_value) ==
    IF i > months \/ future_value.n.s \notin {-1, 0, 1} THEN future_value
    ELSE sip_loop(monthly_investment, monthly_rate, months, i + 1,
                  RAdd(future_value,
                       RMul(RInt(monthly_investment),
                            RPow(RAdd(RInt(1), monthly_rate), months - i + 1))))

\* a plausible slip: range(1, months) in place of range(1, months + 1)
sip_simulation_short(monthly_investment, annual_return_rate, years) ==
    [invested |-> monthly_investment * 12 * years,
     value |-> sip_loop(monthly_investment,
                        RDiv(RDiv(annual_return_rate, RInt(12)), RInt(100)),
                        years * 12, 2, RInt(0))]

sip_simulation(monthly_investment, annual_return_rate, years) ==
    LET total_invested == monthly_investment * 12 * years
        monthly_rate == RDiv(RDiv(annual_return_rate, RInt(12)), RInt(100))
        months == years * 12
    IN [invested |-> total_invested,
        value |-> sip_loop(monthly_investment, monthly_rate, months, 1, RInt(0))]

sec_80c_limit == 150000

\* a plausible slip: the ceiling is not applied
tax_benefits_uncapped(investment_amount) ==
    [eligible |-> investment_amount,
     saved |-> RMul(RInt(investment_amount), Dec(3, 10))]

tax_benefits(investment_amount) ==
    LET eligible == IF investment_amount <= sec_80c_limit
                    THEN investment_amount ELSE sec_80c_limit
        tax_saved == RMul(RInt(eligible), Dec(3, 10))
    IN [eligible |-> eligible, saved |-> tax_saved]

\* a plausible slip: the monthly withdrawal is not turned into a yearly one
post_retirement_income_models_monthly(total_corpus, annuity_rate, swp_amount) ==
    IF swp_amount = 0 THEN Raise("ZeroDivisionError")
    ELSE Ok([annuity |-> RDiv(RInt(total_corpus * annuity_rate), RInt(100)),
             swp_years |-> RDiv(RInt(total_corpus), RInt(swp_amount))])

post_retirement_income_models(total_corpus, annuity_rate, swp_amount) ==
    LET annual_annuity == RDiv(RInt(total_corpus * annuity_rate), RInt(100))
    IN IF swp_amount * 12 = 0 THEN Raise("ZeroDivisionError")
       ELSE Ok([annuity |-> annual_annuity,
                swp_years |-> RDiv(RInt(total_corpus), RInt(swp_amount * 12))])

---------------------------------------------------------------------------
(* The closed-form future value the script writes out four times:          *)
(*   monthly_investment * (((1 + rate/100/12) ** n - 1) / (rate/100/12))   *)

\* a plausible slip: the division by the monthly rate is left out
closed_form_at_undivided(monthly_investment, r, n) ==
    IF RIsZero(r) THEN Raise("ZeroDivisionError")
    ELSE Ok(RMul(RInt(monthly_investment), RSub(RPow(RAdd(RInt(1), r), n), RInt(1))))

\* with r the value of rate/100/12
closed_form_at(monthly_investment, r, n) ==
    IF RIsZero(r) THEN Raise("ZeroDivisionError")
    ELSE Ok(RMul(RInt(monthly_investment),
                 RDiv(RSub(RPow(RAdd(RInt(1), r), n), RInt(1)), r)))

\* a plausible slip: rate//100/12, and rate//100 is 0.0 for a rate below 100
closed_form_floor(monthly_investment, estimated_return, n) ==
    closed_form_at(monthly_investment, RDiv(RInt(0), RInt(12)), n)

closed_form(monthly_investment, estimated_return, n) ==
    closed_form_at(monthly_investment,
                   RDiv(RDiv(estimated_return, RInt(100)), RInt(12)), n)

---------------------------------------------------------------------------
(* The widgets: their declared ranges and defaults, and the values the     *)
(* model lets the user pick.                                               *)

age_min == 18
age_max == 60
age_default == 30
retirement_age_min == 50
retirement_age_max == 70
retirement_age_default == 60
monthly_investment_min == 500
monthly_investment_default == 5000
equity_min == 5
equity_default == 12
traditional_min == 4
traditional_default == 7
sip_monthly_default == 5000
sip_rate_min == 1
sip_rate_default == 12
sip_years_min == 1
sip_years_max == 40
sip_years_default == 20
investment_min == 0
annuity_rate_min == 1
annuity_rate_max == 10
investment_max == 500000
investment_default == 100000
corpus_min == 100000
corpus_default == 1000000
annuity_rate_default == 6
swp_min == 1000
swp_default == 10000

\* how far from the earliest retirement age the modelled ages lie
AgeSpread == 1
\* the longest SIP duration a run of sip_simulation is given
MaxYears == 1

Ages ==
    {a \in age_min..age_max :
        retirement_age_min - AgeSpread <= a /\ a <= retirement_age_min + AgeSpread}

RetirementAges ==
    {a \in retirement_age_min..retirement_age_max : a <= retirement_age_min + AgeSpread}

MonthlyInvestments == {monthly_investment_min, monthly_investment_default}

EquityRates == {RInt(equity_min), RInt(equity_default)}

TraditionalRates == {RInt(traditional_min), RInt(traditional_default)}

SipRates == {RInt(sip_rate_min), RInt(sip_rate_default)}

SipYears == {y \in sip_years_min..sip_years_max : y <= MaxYears}

Investments == {investment_default, investment_max}

SwpAmounts == {swp_min, swp_default}

Sidebar ==
    [age |-> Ages,
     retirement_age |-> RetirementAges,
     monthly_investment |-> MonthlyInvestments,
     estimated_return_equity |-> EquityRates,
     estimated_return_traditional |-> TraditionalRates]

SipWidgets == [rate |-> SipRates, years |-> SipYears]

IncomeWidgets == [swp_amount |-> SwpAmounts]

\* every widget at its default
Defaults ==
    [age |-> age_default,
     retirement_age |-> retirement_age_default,
     monthly_investment |-> monthly_investment_default,
     estimated_return_equity |-> RInt(equity_default),
     estimated_return_traditional |-> RInt(traditional_default),
     show_growth |-> FALSE,
     monthly |-> sip_monthly_default,
     rate |-> RInt(sip_rate_default),
     years |-> sip_years_default,
     investment |-> investment_default,
     corpus |-> corpus_default,
     annuity_rate |-> annuity_rate_default,
     swp_amount |-> swp_default]

---------------------------------------------------------------------------
(* One pass of the script.                                                 *)

None == "none"

\* lines 42-45, given the months and the two closed forms
summary(months, monthly_investment, equity, traditional) ==
    [months |-> months,
     total_investment |-> monthly_investment * months,
     err |-> IF equity.err # None THEN equity.err ELSE traditional.err,
     future_value_equity |-> equity.val,
     future_value_traditional |-> IF equity.err # None THEN <<>> ELSE traditional.val]

\* lines 42-45
retirement_calculation(in) ==
    summary((in.retirement_age - in.age) * 12, in.monthly_investment,
            closed_form(in.monthly_investment, in.estimated_return_equity,
                        (in.retirement_age - in.age) * 12),
            closed_form(in.monthly_investment, in.estimated_return_traditional,
                        (in.retirement_age - in.age) * 12))

\* line 57: the rows of the frame, given the three columns
growth_frame(years, equity_growth, traditional_growth) ==
    IF \E k \in DOMAIN years : equity_growth[k].err # None
    THEN Raise("ZeroDivisionError")
    ELSE IF \E k \in DOMAIN years : traditional_growth[k].err # None
    THEN Raise("ZeroDivisionError")
    ELSE Ok([k \in DOMAIN years |->
                [Year |-> years[k],
                 Equity |-> equity_growth[k].val[1],
                 Traditional |-> traditional_growth[k].val[1]]])

\* a list comprehension, evaluated once into a list
list(f) == <<>> \o f

\* line 54: list(range(lo, hi))
range(lo, hi) == [k \in 1..(IF hi > lo THEN hi - lo ELSE 0) |-> lo + k - 1]

\* a plausible slip: i runs over range(1, len(years) + 1)
growth_of_shifted(in, years) ==
    growth_frame(years,
        list([k \in DOMAIN years |->
            closed_form(in.monthly_investment, in.estimated_return_equity, k * 12)]),
        list([k \in DOMAIN years |->
            closed_form(in.monthly_investment, in.estimated_return_traditional,
                        k * 12)]))

\* lines 54-57, given years; i in range(len(years)) is k - 1 here
growth_of(in, years) ==
    growth_frame(years,
        list([k \in DOMAIN years |->
            closed_form(in.monthly_investment, in.estimated_return_equity,
                        (k - 1) * 12)]),
        list([k \in DOMAIN years |->
            closed_form(in.monthly_investment, in.estimated_return_traditional,
                        (k - 1) * 12)]))

\* lines 53-60: the rows of df_growth
growth_over_time(in) ==
    IF in.show_growth THEN growth_of(in, range(in.age, in.retirement_age + 1))
    ELSE Ok(<<>>)

\* lines 64-70
df_comparison ==
    << [Option |-> "Equity Mutual Fund", Returns |-> RInt(12),
        Risk |-> "High", Liquidity |-> "High (after 1 year)"],
       [Option |-> "Public Provident Fund (PPF)", Returns |-> Dec(71, 10),
        Risk |-> "Low", Liquidity |-> "Low"],
       [Option |-> "Employees Provident Fund (EPF)", Returns |-> Dec(81, 10),
        Risk |-> "Low", Liquidity |-> "Low"],
       [Option |-> "National Pension Scheme (NPS)", Returns |-> RInt(9),
        Risk |-> "Moderate", Liquidity |-> "Moderate"] >>

\* a plausible slip: the growth sheet is written whether or not there are rows
excel_export_always(calc, df_growth) ==
    << [sheet |-> "Summary",
        rows |-> << [Summary |-> "Total Investment",
                     Amount |-> RInt(calc.total_investment)],
                    [Summary |-> "Equity FV",
                     Amount |-> calc.future_value_equity[1]],
                    [Summary |-> "Traditional FV",
                     Amount |-> calc.future_value_traditional[1]] >>],
       [sheet |-> "Growth Over Time", rows |-> df_growth],
       [sheet |-> "Option Comparison", rows |-> df_comparison] >>

\* lines 103-111: the sheets written, in order
excel_export(calc, df_growth) ==
    << [sheet |-> "Summary",
        rows |-> << [Summary |-> "Total Investment",
                     Amount |-> RInt(calc.total_investment)],
                    [Summary |-> "Equity FV",
                     Amount |-> calc.future_value_equity[1]],
                    [Summary |-> "Traditional FV",
                     Amount |-> calc.future_value_traditional[1]] >>] >>
    \o (IF df_growth # <<>>
        THEN << [sheet |-> "Growth Over Time", rows |-> df_growth] >>
        ELSE <<>>)
    \o << [sheet |-> "Option Comparison", rows |-> df_comparison] >>

\* the part of the widget values that lines 35-60 read
sidebar(in) ==
    [age |-> in.age,
     retirement_age |-> in.retirement_age,
     monthly_investment |-> in.monthly_investment,
     estimated_return_equity |-> in.estimated_return_equity,
     estimated_return_traditional |-> in.estimated_return_traditional,
     show_growth |-> in.show_growth]

SidebarSettings ==
    {[age |-> a,
      retirement_age |-> r,
      monthly_investment |-> m,
      estimated_return_equity |-> e,
      estimated_return_traditional |-> t,
      show_growth |-> g] :
        a \in Ages, r \in RetirementAges, m \in MonthlyInvestments,
        e \in EquityRates, t \in TraditionalRates, g \in BOOLEAN}

\* The script is a function of the widget values, so what it computes from
\* the sidebar and from the SIP widgets is worked out once for each of the
\* modelled settings and looked up by every pass that has them.
calculations == [s \in SidebarSettings |-> retirement_calculation(s)]

growths == [s \in SidebarSettings |-> growth_over_time(s)]

simulations ==
    [monthly \in {sip_monthly_default}, rate \in SipRates, years \in SipYears |->
        sip_simulation(monthly, rate, years)]

\* what a pass leaves on the page
Page(in, clicked, calc, growth, income) ==
    [error |-> IF growth.err # None THEN growth.err ELSE income.err,
     months |-> calc.months,
     total_investment |-> calc.total_investment,
     future_value_equity |-> calc.future_value_equity,
     future_value_traditional |-> calc.future_value_traditional,
     df_growth |-> IF growth.err = None THEN growth.val[1] ELSE <<>>,
     df_comparison |-> IF growth.err = None THEN df_comparison ELSE <<>>,
     sip |-> IF growth.err = None /\ clicked = "sip"
             THEN <<simulations[in.monthly, in.rate, in.years]>> ELSE <<>>,
     tax |-> IF growth.err = None THEN <<tax_benefits(in.investment)>> ELSE <<>>,
     income |-> IF growth.err = None THEN income.val ELSE <<>>,
     workbook |-> IF growth.err = None /\ income.err = None /\ clicked = "download"
                  THEN <<excel_export(calc, growth.val[1])>> ELSE <<>>]

\* lines 62-112, after the growth section
ScriptFromComparison(in, clicked, calc, growth) ==
    Page(in, clicked, calc, growth,
         IF growth.err = None /\ clicked = "income"
         THEN post_retirement_income_models(in.corpus, in.annuity_rate, in.swp_amount)
         ELSE Raise(None))

\* lines 47-112, after the retirement calculation
ScriptFromSummary(in, clicked, calc) ==
    ScriptFromComparison(in, clicked, calc,
        IF calc.err # None THEN Raise(calc.err) ELSE growths[sidebar(in)])

\* the whole script, lines 30-112; an exception ends the pass where it is raised
Script(in, clicked) == ScriptFromSummary(in, clicked, calculations[sidebar(in)])

---------------------------------------------------------------------------
(* The session: every interaction re-runs the script.                      *)

NoCall == [fn |-> None, args |-> <<>>]

Rerun(in, clicked) ==
    /\ inputs' = in
    /\ button' = clicked
    /\ page' = Script(in, clicked)
    /\ shown' = (shown \/ page.df_growth # <<>>)
    /\ UNCHANGED <<call, ret>>

\* the first pass; the session is taken up with the ages and the SIP
\* duration already set inside the modelled window
InitialInputs ==
    {[Defaults EXCEPT !.age = a, !.retirement_age = r, !.years = y] :
        a \in Ages, r \in RetirementAges, y \in SipYears}

Init ==
    /\ inputs \in InitialInputs
    /\ button = None
    /\ page = Script(inputs, None)
    /\ shown = FALSE
    /\ call = NoCall
    /\ ret = <<>>

ChangeSidebar ==
    \E f \in DOMAIN Sidebar : \E v \in Sidebar[f] :
        /\ v # inputs[f]
        /\ Rerun([inputs EXCEPT ![f] = v], None)

ToggleGrowth == Rerun([inputs EXCEPT !.show_growth = ~inputs.show_growth], None)

ChangeSip ==
    \E f \in DOMAIN SipWidgets : \E v \in SipWidgets[f] :
        /\ v # inputs[f]
        /\ Rerun([inputs EXCEPT ![f] = v], None)

ChangeInvestment ==
    \E v \in Investments :
        /\ v # inputs.investment
        /\ Rerun([inputs EXCEPT !.investment = v], None)

ChangeIncome ==
    \E f \in DOMAIN IncomeWidgets : \E v \in IncomeWidgets[f] :
        /\ v # inputs[f]
        /\ Rerun([inputs EXCEPT ![f] = v], None)

ClickCalculateSIP == Rerun(inputs, "sip")

ClickSimulateIncome == Rerun(inputs, "income")

ClickDownload == Rerun(inputs, "download")

Next ==
    \/ ChangeSidebar
    \/ ToggleGrowth
    \/ ChangeSip
    \/ ChangeInvestment
    \/ ChangeIncome
    \/ ClickCalculateSIP
    \/ ClickSimulateIncome
    \/ ClickDownload

Spec == Init /\ [][Next]_vars

---------------------------------------------------------------------------
(* The functions on their own: each is called with arguments from a        *)
(* bounded set, whatever the widgets would let through.  The closed form   *)
(* is no function of the script; it is evaluated here as the script        *)
(* writes it.  The functions keep nothing between calls, so a behaviour    *)
(* is one call.                                                            *)

SipCallMonthlies == {1, sip_monthly_default \div 5, sip_monthly_default}

SipCallRates == {RInt(0), RInt(sip_rate_min), RInt(sip_rate_default), RInt(20)}

TaxCallInvestments ==
    {investment_min + 10000 * k : k \in 0..50}
        \cup {sec_80c_limit - 1, sec_80c_limit + 1}

IncomeCallCorpora == {corpus_min, corpus_default}

IncomeCallRates == {annuity_rate_min, annuity_rate_default, annuity_rate_max}

IncomeCallSwpAmounts == {0, swp_min, swp_default}

ClosedFormRates == {RInt(0), RInt(traditional_min), RInt(equity_min), RInt(equity_default)}

ClosedFormMonths == {12 * y : y \in -1..(MaxYears + 1)}

FnInit ==
    /\ inputs = [Defaults EXCEPT !.age = retirement_age_min,
                                 !.retirement_age = retirement_age_min,
                                 !.years = sip_years_min]
    /\ button = None
    /\ page = Script(inputs, None)
    /\ shown = FALSE
    /\ call = NoCall
    /\ ret = <<>>

CallSipSimulation ==
    \E m \in SipCallMonthlies, r \in SipCallRates, y \in SipYears :
        /\ call = NoCall
        /\ call' = [fn |-> "sip_simulation", args |-> <<m, r, y>>]
        /\ ret' = <<sip_simulation(m, r, y)>>
        /\ UNCHANGED <<inputs, button, page, shown>>

CallTaxBenefits ==
    \E a \in TaxCallInvestments :
        /\ call = NoCall
        /\ call' = [fn |-> "tax_benefits", args |-> <<a>>]
        /\ ret' = <<tax_benefits(a)>>
        /\ UNCHANGED <<inputs, button, page, shown>>

CallIncomeModels ==
    \E c \in IncomeCallCorpora, r \in IncomeCallRates, w \in IncomeCallSwpAmounts :
        /\ call = NoCall
        /\ call' = [fn |-> "post_retirement_income_models", args |-> <<c, r, w>>]
        /\ ret' = <<post_retirement_income_models(c, r, w)>>
        /\ UNCHANGED <<inputs, button, page, shown>>

EvalClosedForm ==
    \E m \in MonthlyInvestments, r \in ClosedFormRates, n \in ClosedFormMonths :
        /\ call = NoCall
        /\ call' = [fn |-> "closed_form", args |-> <<m, r, n>>]
        /\ ret' = <<closed_form(m, r, n)>>
        /\ UNCHANGED <<inputs, button, page, shown>>

FnNext ==
    \/ CallSipSimulation
    \/ CallTaxBenefits
    \/ CallIncomeModels
    \/ EvalClosedForm

FnSpec == FnInit /\ [][FnNext]_vars

---------------------------------------------------------------------------
(* Properties.                                                             *)

\* C1: for a monthly contribution > 0, a rate > 0 and years > 0, the value
\* sip_simulation returns is within 1e-6, relative, of the closed form
\* monthly * ((1+r)^months - 1) / r the retirement summary uses.
C1_IterativeAgreesWithClosedForm ==
    (call.fn = "sip_simulation" /\ ~RIsZero(call.args[2])) =>
        RLeq(RMul(RAbs(RSub(ret[1].value,
                            closed_form(call.args[1], call.args[2],
                                        call.args[3] * 12).val[1])),
                  RInt(1000000)),
             RAbs(ret[1].value))

\* C2: in every pass the horizon months = (retirement_age - age) * 12 is >= 0.
C2_MonthsNonNegative == page.months >= 0

\* C3: tax_benefits returns eligible = min(investment_amount, 150000) and
\* tax_saved = 0.30 * eligible; eligible never exceeds 150000, and above the
\* ceiling tax_saved is 45000.
C3_TaxBenefits ==
    call.fn = "tax_benefits" =>
        /\ ret[1].eligible <= 150000
        /\ ret[1].eligible <= call.args[1]
        /\ ret[1].eligible \in {call.args[1], 150000}
        /\ REq(RMul(ret[1].saved, RInt(10)), RInt(3 * ret[1].eligible))
        /\ (call.args[1] > 150000 => REq(ret[1].saved, RInt(45000)))

C3_Witness ==
    /\ call.fn = "tax_benefits"
    /\ call.args[1] = 200000
    /\ ret[1].eligible = 150000
    /\ REq(ret[1].saved, RInt(45000))

\* C4: called with annual rate 0, sip_simulation returns a future value
\* exactly equal to total_invested = monthly * 12 * years.
C4_ZeroRateReturnsContributions ==
    (call.fn = "sip_simulation" /\ RIsZero(call.args[2])) =>
        /\ ret[1].invested = call.args[1] * 12 * call.args[3]
        /\ REq(ret[1].value, RInt(call.args[1] * 12 * call.args[3]))

C4_Witness ==
    /\ call.fn = "sip_simulation"
    /\ RIsZero(call.args[2])
    /\ call.args[1] = sip_monthly_default
    /\ call.args[3] = 1
    /\ REq(ret[1].value, RInt(60000))

C6_IncomeModels ==
    call.fn = "post_retirement_income_models" =>
        /\ call.args[3] > 0 =>
              /\ ret[1].err = None
              /\ REq(RMul(ret[1].val[1].annuity, RInt(100)),
                     RInt(call.args[1] * call.args[2]))
              /\ REq(RMul(ret[1].val[1].swp_years, RInt(call.args[3] * 12)),
                     RInt(call.args[1]))
        /\ call.args[3] = 0 =>
              /\ ret[1].err = "ZeroDivisionError"
              /\ ret[1].val = <<>>

C6_Witness ==
    /\ call.fn = "post_retirement_income_models"
    /\ call.args = <<corpus_default, annuity_rate_default, swp_default>>
    /\ REq(ret[1].val[1].annuity, RInt(60000))
    /\ REq(ret[1].val[1].swp_years, Dec(100, 12))

\* C7: with a rate > 0 the future value is at least what was contributed:
\* the SIP panel's value against monthly * 12 * years, and the summary's two
\* future values against monthly_investment * months.
C7_FutureValueCoversContributions ==
    /\ (page.sip # <<>> /\ ~RLeq(inputs.rate, RInt(0))) =>
          RLeq(RInt(inputs.monthly * 12 * inputs.years), page.sip[1].value)
    /\ (page.future_value_equity # <<>>
            /\ ~RLeq(inputs.estimated_return_equity, RInt(0))) =>
          RLeq(RInt(inputs.monthly_investment
                        * ((inputs.retirement_age - inputs.age) * 12)),
               page.future_value_equity[1])
    /\ (page.future_value_traditional # <<>>
            /\ ~RLeq(inputs.estimated_return_traditional, RInt(0))) =>
          RLeq(RInt(inputs.monthly_investment
                        * ((inputs.retirement_age - inputs.age) * 12)),
               page.future_value_traditional[1])

C7_Witness ==
    /\ button = "sip"
    /\ page.sip # <<>>
    /\ ~RLeq(page.sip[1].value, RInt(page.sip[1].invested))
    /\ page.months > 0
    /\ ~RLeq(page.future_value_equity[1], RInt(page.total_investment))

\* C8: a download writes the sheet Summary (Total Investment, Equity FV,
\* Traditional FV, with the pass's own values) and the sheet Option
\* Comparison (the four fixed rows); the sheet Growth Over Time is written
\* only when the pass computed the growth series, and is left out without an
\* error otherwise.
C8_ExportSheets ==
    button = "download" =>
        /\ page.error = None
        /\ page.workbook # <<>>
        /\ Len(page.workbook[1]) \in {2, 3}
        /\ page.workbook[1][1] =
              [sheet |-> "Summary",
               rows |-> << [Summary |-> "Total Investment",
                            Amount |-> RInt(inputs.monthly_investment
                                * ((inputs.retirement_age - inputs.age) * 12))],
                           [Summary |-> "Equity FV",
                            Amount |-> page.future_value_equity[1]],
                           [Summary |-> "Traditional FV",
                            Amount |-> page.future_value_traditional[1]] >>]
        /\ page.workbook[1][Len(page.workbook[1])].sheet = "Option Comparison"
        /\ Len(page.workbook[1][Len(page.workbook[1])].rows) = 4
        /\ page.workbook[1][Len(page.workbook[1])].rows = page.df_comparison
        /\ Len(page.workbook[1]) = 3 =>
              /\ inputs.show_growth
              /\ page.workbook[1][2].sheet = "Growth Over Time"
              /\ page.workbook[1][2].rows = page.df_growth
              /\ page.df_growth # <<>>
        /\ ~inputs.show_growth => Len(page.workbook[1]) = 2

\* a download with the box unchecked, after a pass that showed the series
C8_Witness ==
    /\ button = "download"
    /\ shown
    /\ ~inputs.show_growth
    /\ page.error = None
    /\ Len(page.workbook[1]) = 2

\* C9: with the box checked and age <= retirement_age the series has
\* retirement_age - age + 1 rows, for the years age..retirement_age in
\* order; row k holds the closed form at k * 12 months under each rate (what
\* the summary shows for a horizon of k years), so the first row is 0 and
\* the last row is the summary's pair of future values.
C9_GrowthSeries ==
    (inputs.show_growth /\ inputs.age <= inputs.retirement_age) =>
        /\ Len(page.df_growth) = inputs.retirement_age - inputs.age + 1
        /\ \A k \in DOMAIN page.df_growth :
              /\ page.df_growth[k].Year = inputs.age + (k - 1)
              /\ <<page.df_growth[k].Equity>> =
                    calculations[[sidebar(inputs) EXCEPT
                        !.age = inputs.retirement_age - (k - 1)]].future_value_equity
              /\ <<page.df_growth[k].Traditional>> =
                    calculations[[sidebar(inputs) EXCEPT
                        !.age = inputs.retirement_age - (k - 1)]].future_value_traditional
        /\ RIsZero(page.df_growth[1].Equity)
        /\ RIsZero(page.df_growth[1].Traditional)
        /\ <<page.df_growth[Len(page.df_growth)].Equity>> = page.future_value_equity
        /\ <<page.df_growth[Len(page.df_growth)].Traditional>>
              = page.future_value_traditional

C9_Witness ==
    /\ inputs.show_growth
    /\ inputs.retirement_age = inputs.age + 1
    /\ Len(page.df_growth) = 2
    /\ page.df_growth[2].Year = inputs.retirement_age
    /\ ~RIsZero(page.df_growth[2].Equity)

\* C10: with every widget inside its range, whatever is toggled or clicked,
\* no pass divides by zero: the divisors rate/100/12 and swp_amount * 12 are
\* non-zero and every panel of the pass is computed.
C10_NoDivisionByZero ==
    /\ page.error = None
    /\ ~RIsZero(RDiv(RDiv(inputs.estimated_return_equity, RInt(100)), RInt(12)))
    /\ ~RIsZero(RDiv(RDiv(inputs.estimated_return_traditional, RInt(100)), RInt(12)))
    /\ inputs.swp_amount * 12 # 0
    /\ page.future_value_equity # <<>>
    /\ page.future_value_traditional # <<>>
    /\ page.df_comparison # <<>>
    /\ page.tax # <<>>
    /\ (inputs.show_growth /\ inputs.age <= inputs.retirement_age) =>
          page.df_growth # <<>>
    /\ button = "sip" => page.sip # <<>>
    /\ button = "income" => page.income # <<>>
    /\ button = "download" => page.workbook # <<>>

C10_Witness ==
    /\ button = "income"
    /\ inputs.swp_amount = swp_min
    /\ inputs.estimated_return_equity = RInt(equity_min)
    /\ inputs.estimated_return_traditional = RInt(traditional_min)
    /\ inputs.show_growth
    /\ page.df_growth # <<>>
    /\ page.income # <<>>
=============================================================================
